---- MODULE Spec2Model ----
(***************************************************************************)
(* startmon: the process/thread start monitor of src/main.c.               *)
(*                                                                         *)
(* Memory is modelled at the granularity the code reads it:                *)
(*   - rcvbuf is a sequence of 32-bit words (every field the code reads    *)
(*     from a netlink frame is a 4-byte aligned word; the 16-bit           *)
(*     nlmsg_type is the low half of word 1 of the frame).  The sequence   *)
(*     holds the words written so far; words past its end have never been  *)
(*     written since malloc() and reading one is an indeterminate value.   *)
(*   - cmdlinebuf and procname are sequences of bytes (0..255) holding the *)
(*     prefix of the array written so far; the arrays are zero-initialised *)
(*     globals, so bytes past the end of the sequence are 0.               *)
(*   - stdout is the unbuffered output stream, a sequence of bytes.        *)
(* A C index i is element i+1 of the sequence.                             *)
(***************************************************************************)
EXTENDS Integers, Sequences, FiniteSets, TLC

VARIABLES
    pc,          \* position of main(): getopt, socket, bind, writev, malloc,
                 \*   recvfrom, walk, exit
    execflag,    \* int execflag
    forkflag,    \* int forkflag
    threadflag,  \* int threadflag
    procname,    \* char procname[50]
    cmdlinebuf,  \* char cmdlinebuf[4096]
    bytes,       \* ssize_t bytes
    nl_pid,      \* nladdr.nl_pid
    rcvbuf,      \* the malloc()ed receive buffer, in 32-bit words
    bcount,      \* ssize_t bcount: bytes received, then bytes left to walk
    hdr,         \* struct nlmsghdr *hdr, as a byte offset into rcvbuf
    stdout,      \* bytes written to the standard output so far
    nopen,       \* number of open() calls made by get_cmdline so far
    lastio,      \* the last open()/read() of get_cmdline: path and outcome
    charSigned,  \* whether plain char is signed in this build
    nrecv        \* number of recvfrom() calls made so far (bounds the run)

vars == <<pc, execflag, forkflag, threadflag, procname, cmdlinebuf, bytes,
          nl_pid, rcvbuf, bcount, hdr, stdout, nopen, lastio, charSigned,
          nrecv>>

(***************************************************************************)
(* Bounds of the model.                                                    *)
(***************************************************************************)
\* number of recvfrom() calls in a run
MaxRecv == 2
\* longest enumerated raw command line (besides the named samples)
MaxRaw == 2

(***************************************************************************)
(* Program constants.                                                      *)
(***************************************************************************)
CMDLINE_SIZE == 4096        \* char cmdlinebuf[4096]; read(fd, cmdlinebuf, 4096)
NLMSG_HDRLEN == 16          \* sizeof(struct nlmsghdr), used by NLMSG_OK/NLMSG_DATA
NLMSG_ALIGNTO == 4
NLMSG_NOOP == 1
NLMSG_ERROR == 2
NLMSG_DONE == 3
NLMSG_OVERRUN == 4
CN_IDX_PROC == 1
CN_VAL_PROC == 1
PROC_EVENT_FORK == 1
PROC_EVENT_EXEC == 2
\* byte offsets, from the start of a frame, of the words the code reads
OFF_NLMSG_LEN == 0          \* nlhdr->nlmsg_len
OFF_NLMSG_TYPE == 4         \* nlhdr->nlmsg_type (low 16 bits of the word)
OFF_CN_IDX == 16            \* hdr->id.idx   (NLMSG_DATA = frame + 16)
OFF_CN_VAL == 20            \* hdr->id.val
OFF_PE_WHAT == 36           \* pe->what      (hdr->data = cn_msg + 20)
OFF_PE_ID0 == 52            \* fork.parent_pid / exec.process_pid
OFF_PE_ID1 == 56            \* fork.parent_tgid / exec.process_tgid
OFF_PE_ID2 == 60            \* fork.child_pid
OFF_PE_ID3 == 64            \* fork.child_tgid

(***************************************************************************)
(* Text helpers: printf's conversions, computed digit by digit.            *)
(***************************************************************************)
RECURSIVE DecNat(_)
DecNat(n) == IF n < 10 THEN <<48 + n>> ELSE DecNat(n \div 10) \o <<48 + (n % 10)>>

\* "%d"
FmtD(i) == IF i < 0 THEN <<45>> \o DecNat(0 - i) ELSE DecNat(i)

SetMin(S) == CHOOSE x \in S : \A y \in S : x <= y

Max(a, b) == IF a >= b THEN a ELSE b

\* "%s" of a char array whose written prefix is buf: the bytes before the
\* first 0.  The byte after a full array is the first byte of the adjacent
\* object, which the terminator store of get_cmdline has just set to 0.
CStr(buf) ==
    LET Z == {i \in 1..Len(buf) : buf[i] = 0}
    IN  IF Z = {} THEN buf ELSE SubSeq(buf, 1, SetMin(Z) - 1)

\* store the bytes s at C index i of the array whose written prefix is buf
Store(buf, i, s) ==
    [k \in 1..Max(Len(buf), i + Len(s)) |->
        IF k > i /\ k <= i + Len(s) THEN s[k - i]
        ELSE IF k <= Len(buf) THEN buf[k] ELSE 0]

(***************************************************************************)
(* get_cmdline (src/main.c:59-76).                                         *)
(***************************************************************************)
STR_PROC == <<47, 112, 114, 111, 99, 47>>                 \* "/proc/"
STR_CMDLINE == <<47, 99, 109, 100, 108, 105, 110, 101>>   \* "/cmdline"
STR_NA == <<60, 78, 47, 65, 62>>                          \* "<N/A>"

\* sprintf(procname, "/proc/%d/cmdline", id), without the terminator
ProcPath(id) == STR_PROC \o FmtD(id) \o STR_CMDLINE

\* the value of *c for the byte b held in a plain char
CharValue(b, signed) == IF signed /\ b >= 128 THEN b - 256 ELSE b

\* if (*c < 32) *c = ' ';
Sanitize(b, signed) == IF CharValue(b, signed) < 32 THEN 32 ELSE b

\* the outcomes of open() and read(): open failed; read failed (-1);
\* read returned the bytes data
IoOpenFail == [ok |-> FALSE, ret |-> 0, data |-> <<>>]
IoReadFail == [ok |-> TRUE, ret |-> 0 - 1, data |-> <<>>]
IoData(d) == [ok |-> TRUE, ret |-> Len(d), data |-> d]

\* bytes = read(fd, cmdlinebuf, 4096): a successful read stores its bytes
AfterRead(buf, io) == IF io.ret > 0 THEN Store(buf, 0, io.data) ELSE buf

\* seeded fault: the loop stops one byte early
AfterLoop_OffByOne(buf, n, signed) ==
    [k \in 1..Len(buf) |-> IF k < n THEN Sanitize(buf[k], signed) ELSE buf[k]]

\* for (c=cmdlinebuf, remain=bytes; remain>0; c++, remain--) ...
AfterLoop(buf, n, signed) ==
    [k \in 1..Len(buf) |-> IF k <= n THEN Sanitize(buf[k], signed) ELSE buf[k]]

\* the C index c - cmdlinebuf where "*c = 0" stores, after the loop
TermIndex(n) == Max(n, 0)

\* seeded fault: the placeholder is copied without its terminator
CmdlineAfter_NoTerm(buf, io, signed) ==
    IF io.ok
    THEN LET b2 == AfterLoop(AfterRead(buf, io), io.ret, signed)
         IN  IF TermIndex(io.ret) < CMDLINE_SIZE
             THEN Store(b2, TermIndex(io.ret), <<0>>)
             ELSE b2
    ELSE Store(buf, 0, STR_NA)

\* cmdlinebuf after get_cmdline; a terminator store at index 4096 is outside
\* the array and leaves it unchanged
CmdlineAfter(buf, io, signed) ==
    IF io.ok
    THEN LET b2 == AfterLoop(AfterRead(buf, io), io.ret, signed)
         IN  IF TermIndex(io.ret) < CMDLINE_SIZE
             THEN Store(b2, TermIndex(io.ret), <<0>>)
             ELSE b2
    ELSE Store(buf, 0, STR_NA \o <<0>>)

\* the global bytes after get_cmdline
BytesAfter(io) == IF io.ok THEN io.ret ELSE Len(STR_NA)

\* the objects declared next to cmdlinebuf: one of them follows it in memory
\* and receives a store made at cmdlinebuf[4096]
Neighbours == {"procname", "bytes"}

\* an integer whose lowest-addressed byte is set to 0
ClobberByte0(v) == v - (v % 256)

\* the whole of get_cmdline(id), for the outcome io of open()/read()
GetCmdline(id, io) ==
    LET path == ProcPath(id)
        oob == io.ok /\ TermIndex(io.ret) >= CMDLINE_SIZE
        pn == Store(procname, 0, path \o <<0>>)
    IN  /\ cmdlinebuf' = CmdlineAfter(cmdlinebuf, io, charSigned)
        /\ \E nb \in IF oob THEN Neighbours ELSE {"none"} :
              /\ bytes' = IF nb = "bytes" THEN ClobberByte0(BytesAfter(io))
                          ELSE BytesAfter(io)
              /\ procname' = IF nb = "procname" THEN Store(pn, 0, <<0>>)
                             ELSE pn
        /\ nopen' = nopen + 1
        /\ lastio' = [path |-> path, io |-> io]

\* lastio before any call
NoIo == [path |-> <<>>, io |-> IoOpenFail]

(***************************************************************************)
(* The netlink macros of the receive loop (src/main.c:228).                *)
(***************************************************************************)
\* NLMSG_ALIGN(len)
NLMSG_ALIGN(len) ==
    ((len + NLMSG_ALIGNTO - 1) \div NLMSG_ALIGNTO) * NLMSG_ALIGNTO

\* the word at byte offset off of the receive buffer, when it was ever written
Written(buf, off) == off \div 4 < Len(buf)
WordAt(buf, off) == buf[(off \div 4) + 1]

\* values a word of never-written heap memory may hold
Indeterminate == {1, 2}

\* the values a read of the word at byte offset off may yield
Rd(buf, off) == IF Written(buf, off) THEN {WordAt(buf, off)} ELSE Indeterminate

\* seeded fault: the declared length is not checked against the header size
NLMSG_OK_NoLower(buf, h, len) ==
    /\ len >= NLMSG_HDRLEN
    /\ WordAt(buf, h + OFF_NLMSG_LEN) <= len

\* NLMSG_OK(hdr, len): the length test comes first and guards the read
NLMSG_OK(buf, h, len) ==
    /\ len >= NLMSG_HDRLEN
    /\ WordAt(buf, h + OFF_NLMSG_LEN) >= NLMSG_HDRLEN
    /\ WordAt(buf, h + OFF_NLMSG_LEN) <= len

\* nlhdr->nlmsg_type: the 16-bit field in the low half of word 1
NlmsgType(buf, h) == WordAt(buf, h + OFF_NLMSG_TYPE) % 65536

(***************************************************************************)
(* dispatch_nl_cn and dispatch_nl (src/main.c:81-138).                     *)
(***************************************************************************)
STR_FORK == <<70, 111, 114, 107, 32>>                 \* "Fork "
STR_THREAD == <<84, 104, 114, 101, 97, 100, 32>>      \* "Thread "
STR_EXEC == <<69, 120, 101, 99, 32>>                  \* "Exec "
STR_EXEC_LEADER == <<69, 120, 101, 99, 32, 45, 32>>   \* "Exec - "
STR_OVERRUN == <<111, 118, 101, 114, 114, 117, 110, 10>>  \* "overrun\n"

NoRecord == [fmt |-> "none"]

\* seeded fault: the Fork line prints the child before the parent
ForkCase_Swapped(parent_pid, child_pid, child_tgid) ==
    IF ~forkflag THEN NoRecord
    ELSE IF child_pid = child_tgid
         THEN [fmt |-> "Fork", a |-> child_pid, b |-> parent_pid,
               id |-> child_tgid]
         ELSE IF threadflag
              THEN [fmt |-> "Thread", a |-> child_tgid, b |-> child_pid,
                    id |-> child_tgid]
              ELSE NoRecord

\* seeded fault: thread creation is reported without the thread flag
ForkCase_NoThreadFlag(parent_pid, child_pid, child_tgid) ==
    IF ~forkflag THEN NoRecord
    ELSE IF child_pid = child_tgid
         THEN [fmt |-> "Fork", a |-> parent_pid, b |-> child_pid,
               id |-> child_tgid]
         ELSE [fmt |-> "Thread", a |-> child_tgid, b |-> child_pid,
               id |-> child_tgid]

\* case PROC_EVENT_FORK: which printf is reached, with its arguments
ForkCase(parent_pid, child_pid, child_tgid) ==
    IF ~forkflag THEN NoRecord
    ELSE IF child_pid = child_tgid
         THEN [fmt |-> "Fork", a |-> parent_pid, b |-> child_pid,
               id |-> child_tgid]
         ELSE IF threadflag
              THEN [fmt |-> "Thread", a |-> child_tgid, b |-> child_pid,
                    id |-> child_tgid]
              ELSE NoRecord

\* seeded fault: a leader exec is looked up and reported only with the fork flag
ExecCase_LeaderNeedsFork(process_pid, process_tgid) ==
    IF ~execflag THEN NoRecord
    ELSE IF process_pid = process_tgid
         THEN IF forkflag
              THEN [fmt |-> "ExecLeader", a |-> process_pid, b |-> process_pid,
                    id |-> process_tgid]
              ELSE NoRecord
         ELSE IF threadflag
              THEN [fmt |-> "ExecThread", a |-> process_tgid,
                    b |-> process_pid, id |-> process_tgid]
              ELSE NoRecord

\* seeded fault: a subordinate exec is keyed and printed by the thread's own pid
ExecCase_ThreadByPid(process_pid, process_tgid) ==
    IF ~execflag THEN NoRecord
    ELSE IF process_pid = process_tgid
         THEN [fmt |-> "ExecLeader", a |-> process_pid, b |-> process_pid,
               id |-> process_tgid]
         ELSE IF threadflag
              THEN [fmt |-> "ExecThread", a |-> process_pid,
                    b |-> process_tgid, id |-> process_pid]
              ELSE NoRecord

\* case PROC_EVENT_EXEC
ExecCase(process_pid, process_tgid) ==
    IF ~execflag THEN NoRecord
    ELSE IF process_pid = process_tgid
         THEN [fmt |-> "ExecLeader", a |-> process_pid, b |-> process_pid,
               id |-> process_tgid]
         ELSE IF threadflag
              THEN [fmt |-> "ExecThread", a |-> process_tgid,
                    b |-> process_pid, id |-> process_tgid]
              ELSE NoRecord

\* seeded fault: an event of another kind falls into the exec case
WhatCase_DefaultExec(what, id0, id1, id2, id3) ==
    IF what = PROC_EVENT_FORK THEN ForkCase(id0, id2, id3)
    ELSE ExecCase(id0, id1)

\* switch (pe->what)
WhatCase(what, id0, id1, id2, id3) ==
    IF what = PROC_EVENT_FORK THEN ForkCase(id0, id2, id3)
    ELSE IF what = PROC_EVENT_EXEC THEN ExecCase(id0, id1)
    ELSE NoRecord

\* seeded fault: only the channel index is compared
OnProcChannel_IdxOnly(idx, val) == ~(idx # CN_IDX_PROC)

\* the channel test of dispatch_nl_cn
OnProcChannel(idx, val) == ~(idx # CN_IDX_PROC \/ val # CN_VAL_PROC)

\* the bytes the reached printf writes, cmd being get_cmdline's string
Printf(r, cmd) ==
    IF r.fmt = "Fork"
    THEN STR_FORK \o FmtD(r.a) \o <<32>> \o FmtD(r.b) \o <<32>> \o cmd \o <<10>>
    ELSE IF r.fmt = "Thread"
    THEN STR_THREAD \o FmtD(r.a) \o <<32>> \o FmtD(r.b) \o <<32>> \o cmd \o <<10>>
    ELSE IF r.fmt = "ExecLeader"
    THEN STR_EXEC_LEADER \o FmtD(r.a) \o <<32>> \o cmd \o <<10>>
    ELSE STR_EXEC \o FmtD(r.a) \o <<32>> \o FmtD(r.b) \o <<32>> \o cmd \o <<10>>

\* seeded fault: the overrun case is missing and falls to the default
TypeCase_NoOverrun(type) ==
    IF type = NLMSG_ERROR \/ type = NLMSG_NOOP THEN "return" ELSE "data"

\* how dispatch_nl treats a frame type
TypeCase(type) ==
    IF type = NLMSG_ERROR \/ type = NLMSG_NOOP THEN "return"
    ELSE IF type = NLMSG_OVERRUN THEN "overrun"
    ELSE "data"

(***************************************************************************)
(* The environment: what the kernel, other senders and /proc may deliver.  *)
(***************************************************************************)
\* a 76-byte frame as the process connector sends it: struct nlmsghdr (len,
\* type/flags, seq, pid), struct cn_msg (idx, val, seq, ack, len/flags) and
\* struct proc_event (what, cpu, timestamp lo/hi, four ids, padding)
Frame(type, idx, val, what, id0, id1, id2, id3) ==
    <<76, type, 0, 0, idx, val, 0, 0, 40, what, 0, 0, 0, id0, id1, id2, id3,
      0, 0>>

\* the frame f declaring a total length of n bytes
WithLen(f, n) == [f EXCEPT ![1] = n]

\* the first w words of f
Cut(f, w) == SubSeq(f, 1, w)

FrFork == Frame(NLMSG_DONE, CN_IDX_PROC, CN_VAL_PROC, PROC_EVENT_FORK, 10, 10, 20, 20)
FrThread == Frame(NLMSG_DONE, CN_IDX_PROC, CN_VAL_PROC, PROC_EVENT_FORK, 20, 20, 21, 20)
FrExecLeader == Frame(NLMSG_DONE, CN_IDX_PROC, CN_VAL_PROC, PROC_EVENT_EXEC, 20, 20, 0, 0)
FrExecThread == Frame(NLMSG_DONE, CN_IDX_PROC, CN_VAL_PROC, PROC_EVENT_EXEC, 21, 20, 0, 0)
\* PROC_EVENT_UID (4) on a frame of a user-defined type (16)
FrOther == Frame(16, CN_IDX_PROC, CN_VAL_PROC, 4, 20, 20, 21, 20)
\* control frames that carry what would decode as an event
FrOverrun == Frame(NLMSG_OVERRUN, CN_IDX_PROC, CN_VAL_PROC, PROC_EVENT_FORK, 10, 10, 20, 20)
FrNoop == Frame(NLMSG_NOOP, CN_IDX_PROC, CN_VAL_PROC, PROC_EVENT_FORK, 10, 10, 20, 20)
FrError == Frame(NLMSG_ERROR, CN_IDX_PROC, CN_VAL_PROC, PROC_EVENT_EXEC, 20, 20, 0, 0)
\* data frames of another connector channel
FrBadIdx == Frame(NLMSG_DONE, 2, CN_VAL_PROC, PROC_EVENT_FORK, 10, 10, 20, 20)
FrBadVal == Frame(NLMSG_DONE, CN_IDX_PROC, 2, PROC_EVENT_EXEC, 20, 20, 0, 0)
\* a data frame that is a bare header
FrShort == Cut(WithLen(FrFork, 16), 4)
\* an overrun frame of 18 bytes, padded to 20
FrUnaligned == Cut(WithLen(FrOverrun, 18), 5)
\* frames whose declared length is below the header size / beyond the datagram
FrTooSmall == WithLen(FrFork, 8)
FrTooBig == WithLen(FrExecLeader, 200)
\* a datagram shorter than a header
FrTruncated == Cut(FrFork, 3)

\* the datagrams the first receive may deliver, each a sequence of words
Datagrams ==
    { FrFork, FrThread, FrExecThread, FrShort, FrTruncated,
      FrFork \o FrExecLeader, FrNoop \o FrFork, FrError \o FrExecThread,
      FrBadIdx \o FrExecLeader, FrBadVal \o FrThread, FrOther \o FrOverrun,
      FrShort \o FrFork, FrUnaligned \o FrExecLeader, FrFork \o FrTooBig,
      FrThread \o FrTooSmall \o FrExecLeader }

\* the datagrams a later receive may deliver (the receive buffer then holds
\* the rest of an earlier, longer datagram)
LaterDatagrams == { FrShort, FrExecLeader, FrOverrun }

\* datagrams also seen from a sender other than the kernel
ForeignDatagrams == { FrOverrun \o FrFork }

\* a port id of another netlink sender; the pids getpid() may return
ForeignPorts == {7}
MyPids == {1000}

\* raw contents of /proc/<id>/cmdline as read() returns them
RawWorker == <<119, 111, 114, 107, 101, 114, 0, 45, 45, 105, 100, 0, 49>>
CmdSamples == {RawWorker}

\* the outcomes of a lookup in the running program
ProcIO == {IoOpenFail, IoReadFail} \cup {IoData(d) : d \in CmdSamples}

(***************************************************************************)
(* main (src/main.c:140-232).                                              *)
(***************************************************************************)
Init ==
    /\ pc = "getopt"
    /\ execflag = FALSE
    /\ forkflag = FALSE
    /\ threadflag = FALSE
    /\ procname = <<>>
    /\ cmdlinebuf = <<>>
    /\ bytes = 0
    /\ nl_pid = 0
    /\ rcvbuf = <<>>
    /\ bcount = 0
    /\ hdr = 0
    /\ stdout = <<>>
    /\ nopen = 0
    /\ lastio = NoIo
    /\ charSigned \in BOOLEAN
    /\ nrecv = 0

\* seeded fault: the mode check after the option loop is missing
Getopt_NoModeCheck ==
    /\ pc = "getopt"
    /\ \E e \in BOOLEAN, f \in BOOLEAN, t \in BOOLEAN, bad \in BOOLEAN :
          /\ execflag' = e
          /\ forkflag' = f
          /\ threadflag' = t
          /\ pc' = IF bad THEN "exit" ELSE "socket"
    /\ UNCHANGED <<procname, cmdlinebuf, bytes, nl_pid, rcvbuf, bcount, hdr,
                   stdout, nopen, lastio, charSigned, nrecv>>

\* the option loop and the mode check; bad is -h or an invalid option
Getopt ==
    /\ pc = "getopt"
    /\ \E e \in BOOLEAN, f \in BOOLEAN, t \in BOOLEAN, bad \in BOOLEAN :
          /\ execflag' = e
          /\ forkflag' = f
          /\ threadflag' = t
          /\ pc' = IF bad \/ ~(e \/ f) THEN "exit" ELSE "socket"
    /\ UNCHANGED <<procname, cmdlinebuf, bytes, nl_pid, rcvbuf, bcount, hdr,
                   stdout, nopen, lastio, charSigned, nrecv>>

Socket ==
    /\ pc = "socket"
    /\ \E ok \in BOOLEAN : pc' = IF ok THEN "bind" ELSE "exit"
    /\ UNCHANGED <<execflag, forkflag, threadflag, procname, cmdlinebuf, bytes,
                   nl_pid, rcvbuf, bcount, hdr, stdout, nopen, lastio,
                   charSigned, nrecv>>

Bind ==
    /\ pc = "bind"
    /\ nl_pid' \in MyPids
    /\ \E ok \in BOOLEAN : pc' = IF ok THEN "writev" ELSE "exit"
    /\ UNCHANGED <<execflag, forkflag, threadflag, procname, cmdlinebuf, bytes,
                   rcvbuf, bcount, hdr, stdout, nopen, lastio, charSigned,
                   nrecv>>

\* the subscription message is 16 + 20 + 4 bytes
Writev ==
    /\ pc = "writev"
    /\ \E ok \in BOOLEAN :
          /\ bcount' = IF ok THEN NLMSG_HDRLEN + 20 + 4 ELSE 0 - 1
          /\ pc' = IF ok THEN "malloc" ELSE "exit"
    /\ UNCHANGED <<execflag, forkflag, threadflag, procname, cmdlinebuf, bytes,
                   nl_pid, rcvbuf, hdr, stdout, nopen, lastio, charSigned,
                   nrecv>>

Malloc ==
    /\ pc = "malloc"
    /\ \E ok \in BOOLEAN : pc' = IF ok THEN "recvfrom" ELSE "exit"
    /\ UNCHANGED <<execflag, forkflag, threadflag, procname, cmdlinebuf, bytes,
                   nl_pid, rcvbuf, bcount, hdr, stdout, nopen, lastio,
                   charSigned, nrecv>>

\* a datagram d stored at the start of the receive buffer
Overlay(buf, d) == d \o SubSeq(buf, Len(d) + 1, Len(buf))

\* seeded fault: the walk starts whatever port the datagram came from
AfterRecvfrom_NoSenderCheck ==
    /\ hdr' = 0
    /\ pc' = "walk"
    /\ nrecv' = nrecv + 1
    /\ UNCHANGED <<execflag, forkflag, threadflag, procname, cmdlinebuf, bytes,
                   stdout, nopen, lastio, charSigned>>

\* if (nladdr.nl_pid == 0) { hdr = rcvbuf; ...
AfterRecvfrom ==
    /\ hdr' = 0
    /\ pc' = IF nl_pid' = 0 THEN "walk" ELSE "recvfrom"
    /\ nrecv' = nrecv + 1
    /\ UNCHANGED <<execflag, forkflag, threadflag, procname, cmdlinebuf, bytes,
                   stdout, nopen, lastio, charSigned>>

\* recvfrom() delivers the datagram d from the port id s
RecvfromData ==
    /\ pc = "recvfrom"
    /\ nrecv < MaxRecv
    /\ \E s \in {0} \cup ForeignPorts :
       \E d \in IF s # 0 THEN ForeignDatagrams
                ELSE IF nrecv = 0 THEN Datagrams ELSE LaterDatagrams :
          /\ rcvbuf' = Overlay(rcvbuf, d)
          /\ bcount' = 4 * Len(d)
          /\ nl_pid' = s
    /\ AfterRecvfrom

\* recvfrom() fails: nothing is stored, nladdr keeps its value
RecvfromFail ==
    /\ pc = "recvfrom"
    /\ nrecv < MaxRecv
    /\ bcount' = 0 - 1
    /\ UNCHANGED <<rcvbuf, nl_pid>>
    /\ AfterRecvfrom

Quiet == UNCHANGED <<procname, cmdlinebuf, bytes, stdout, nopen, lastio>>

\* seeded fault: the line is put in front of the earlier output
Emit_Prepend(r) ==
    \E io \in ProcIO :
        /\ GetCmdline(r.id, io)
        /\ stdout' = Printf(r, CStr(cmdlinebuf')) \o stdout

\* printf(..., get_cmdline(r.id)): the lookup runs first, then the write
Emit(r) ==
    \E io \in ProcIO :
        /\ GetCmdline(r.id, io)
        /\ stdout' = stdout \o Printf(r, CStr(cmdlinebuf'))

\* seeded fault: the command line of a suppressed event is looked up all the same
DispatchNlCn_EagerLookup(h) ==
    \E idx \in Rd(rcvbuf, h + OFF_CN_IDX), val \in Rd(rcvbuf, h + OFF_CN_VAL) :
        IF ~OnProcChannel(idx, val) THEN Quiet
        ELSE \E what \in Rd(rcvbuf, h + OFF_PE_WHAT),
                id0 \in Rd(rcvbuf, h + OFF_PE_ID0),
                id1 \in Rd(rcvbuf, h + OFF_PE_ID1),
                id2 \in Rd(rcvbuf, h + OFF_PE_ID2),
                id3 \in Rd(rcvbuf, h + OFF_PE_ID3) :
                LET r == WhatCase(what, id0, id1, id2, id3)
                IN  IF r = NoRecord
                    THEN \E io \in ProcIO :
                            GetCmdline(id1, io) /\ stdout' = stdout
                    ELSE Emit(r)

\* dispatch_nl_cn on the frame at byte offset h
DispatchNlCn(h) ==
    \E idx \in Rd(rcvbuf, h + OFF_CN_IDX), val \in Rd(rcvbuf, h + OFF_CN_VAL) :
        IF ~OnProcChannel(idx, val) THEN Quiet
        ELSE \E what \in Rd(rcvbuf, h + OFF_PE_WHAT),
                id0 \in Rd(rcvbuf, h + OFF_PE_ID0),
                id1 \in Rd(rcvbuf, h + OFF_PE_ID1),
                id2 \in Rd(rcvbuf, h + OFF_PE_ID2),
                id3 \in Rd(rcvbuf, h + OFF_PE_ID3) :
                LET r == WhatCase(what, id0, id1, id2, id3)
                IN  IF r = NoRecord THEN Quiet ELSE Emit(r)

\* dispatch_nl on the frame at byte offset h
DispatchNl(h) ==
    LET t == TypeCase(NlmsgType(rcvbuf, h))
    IN  IF t = "return" THEN Quiet
        ELSE IF t = "overrun"
             THEN /\ stdout' = stdout \o STR_OVERRUN
                  /\ UNCHANGED <<procname, cmdlinebuf, bytes, nopen, lastio>>
             ELSE DispatchNlCn(h)

\* one iteration of the for loop: dispatch_nl(hdr); hdr = NLMSG_NEXT(hdr, bcount)
WalkStep ==
    /\ pc = "walk"
    /\ NLMSG_OK(rcvbuf, hdr, bcount)
    /\ DispatchNl(hdr)
    /\ hdr' = hdr + NLMSG_ALIGN(WordAt(rcvbuf, hdr + OFF_NLMSG_LEN))
    /\ bcount' = bcount - NLMSG_ALIGN(WordAt(rcvbuf, hdr + OFF_NLMSG_LEN))
    /\ UNCHANGED <<pc, execflag, forkflag, threadflag, nl_pid, rcvbuf,
                   charSigned, nrecv>>

\* seeded fault: a frame that fails NLMSG_OK is treated as fatal
WalkEnd_Exit ==
    /\ pc = "walk"
    /\ ~NLMSG_OK(rcvbuf, hdr, bcount)
    /\ pc' = "exit"
    /\ UNCHANGED <<execflag, forkflag, threadflag, procname, cmdlinebuf, bytes,
                   nl_pid, rcvbuf, bcount, hdr, stdout, nopen, lastio,
                   charSigned, nrecv>>

\* NLMSG_OK fails: the for loop ends and the while loop receives again
WalkEnd ==
    /\ pc = "walk"
    /\ ~NLMSG_OK(rcvbuf, hdr, bcount)
    /\ pc' = "recvfrom"
    /\ UNCHANGED <<execflag, forkflag, threadflag, procname, cmdlinebuf, bytes,
                   nl_pid, rcvbuf, bcount, hdr, stdout, nopen, lastio,
                   charSigned, nrecv>>

Next ==
    \/ Getopt
    \/ Socket
    \/ Bind
    \/ Writev
    \/ Malloc
    \/ RecvfromData
    \/ RecvfromFail
    \/ WalkStep
    \/ WalkEnd

Spec == Init /\ [][Next]_vars

(***************************************************************************)
(* The resolver on its own: get_cmdline applied once to an enumerated      *)
(* outcome of open()/read(), over a buffer left by an earlier call.        *)
(***************************************************************************)
ByteSample == {0, 1, 31, 32, 97, 127, 128, 255}

\* a command line of n bytes: n-1 letters and the final NUL separator
LongRaw(n) == [i \in 1..n |-> IF i = n THEN 0 ELSE 97]

RawAbCdEf == <<97, 98, 0, 99, 100, 1, 101, 102>>

RawInputs ==
    UNION { [1..n -> ByteSample] : n \in 0..MaxRaw }
        \cup {RawWorker, RawAbCdEf, LongRaw(CMDLINE_SIZE - 1), LongRaw(CMDLINE_SIZE)}

AllIO == {IoOpenFail, IoReadFail} \cup {IoData(d) : d \in RawInputs}

SamplePids == {1, 20}

\* cmdlinebuf as earlier calls may have left it
StaleBufs ==
    { <<>>, STR_NA \o <<0>>,
      <<119, 111, 114, 107, 101, 114, 32, 45, 45, 105, 100, 32, 49, 0>> }

InitCmdline ==
    /\ pc = "get_cmdline"
    /\ execflag = FALSE
    /\ forkflag = FALSE
    /\ threadflag = FALSE
    /\ procname = <<>>
    /\ cmdlinebuf \in StaleBufs
    /\ bytes = 0
    /\ nl_pid = 0
    /\ rcvbuf = <<>>
    /\ bcount = 0
    /\ hdr = 0
    /\ stdout = <<>>
    /\ nopen = 0
    /\ lastio = NoIo
    /\ charSigned \in BOOLEAN
    /\ nrecv = 0

CallGetCmdline ==
    /\ pc = "get_cmdline"
    /\ \E id \in SamplePids, io \in AllIO : GetCmdline(id, io)
    /\ pc' = "returned"
    /\ UNCHANGED <<execflag, forkflag, threadflag, nl_pid, rcvbuf, bcount, hdr,
                   stdout, charSigned, nrecv>>

SpecCmdline == InitCmdline /\ [][CallGetCmdline]_vars

(***************************************************************************)
(* Claims.  The expected texts are written out independently of the        *)
(* program's formatting code.                                              *)
(***************************************************************************)
\* number of decimal digits of n >= 0
NumDigits(n) ==
    IF n < 10 THEN 1 ELSE IF n < 100 THEN 2 ELSE IF n < 1000 THEN 3
    ELSE IF n < 10000 THEN 4 ELSE IF n < 100000 THEN 5 ELSE 6

\* the decimal text of n, by positional value
Decimal(n) ==
    [i \in 1..NumDigits(n) |-> 48 + ((n \div (10 ^ (NumDigits(n) - i))) % 10)]

TxtSp == <<32>>
TxtNl == <<10>>
TxtFork == <<70, 111, 114, 107>>
TxtThread == <<84, 104, 114, 101, 97, 100>>
TxtExec == <<69, 120, 101, 99>>
TxtDash == <<45>>
TxtOverrun == <<111, 118, 101, 114, 114, 117, 110>>
TxtNA == <<60, 78, 47, 65, 62>>
TxtWorker == <<119, 111, 114, 107, 101, 114, 32, 45, 45, 105, 100, 32, 49>>
TxtAbCdEf == <<97, 98, 32, 99, 100, 32, 101, 102>>
TxtProcPath(id) == <<47, 112, 114, 111, 99, 47>> \o Decimal(id) \o <<47, 99, 109, 100, 108, 105, 110, 101>>

\* the frame the walk is at: the word at byte offset off from hdr
CurWritten(off) == (hdr + off) \div 4 < Len(rcvbuf)
Cur(off) == rcvbuf[((hdr + off) \div 4) + 1]

\* a full header remains and the declared length lies within [16, remaining]
FrameValid == bcount >= 16 /\ Cur(0) >= 16 /\ Cur(0) <= bcount
AtFrame == pc = "walk" /\ FrameValid
CurType == Cur(4) % 65536
CurIsData == CurType \notin {NLMSG_NOOP, NLMSG_ERROR, NLMSG_OVERRUN}
CurOnChannel ==
    /\ CurWritten(20)
    /\ Cur(16) = CN_IDX_PROC
    /\ Cur(20) = CN_VAL_PROC
\* the frame decodes to a Fork / an Exec (all words read are in the buffer)
CurFork ==
    AtFrame /\ CurIsData /\ CurOnChannel /\ CurWritten(64)
        /\ Cur(36) = PROC_EVENT_FORK
CurExec ==
    AtFrame /\ CurIsData /\ CurOnChannel /\ CurWritten(56)
        /\ Cur(36) = PROC_EVENT_EXEC
CurParentPid == Cur(52)
CurChildPid == Cur(60)
CurChildTgid == Cur(64)
CurExecPid == Cur(52)
CurExecTgid == Cur(56)

\* this step made exactly one lookup, for id, and wrote the line
\* head <resolver's text> newline
EmitsWithLookup(head, id) ==
    /\ nopen' = nopen + 1
    /\ lastio'.path = TxtProcPath(id)
    /\ stdout' = stdout \o head \o TxtSp \o CStr(cmdlinebuf') \o TxtNl

\* this step wrote nothing and looked nothing up
Silent ==
    /\ stdout' = stdout
    /\ nopen' = nopen
    /\ lastio' = lastio
    /\ cmdlinebuf' = cmdlinebuf
    /\ procname' = procname

\* the walk moved on to the frame that follows
MovesOn ==
    /\ pc' = "walk"
    /\ hdr' = hdr + 4 * ((Cur(0) + 3) \div 4)
    /\ bcount' = bcount - 4 * ((Cur(0) + 3) \div 4)

\* C1: an ordinary fork (child_pid = child_tgid) is reported iff the fork flag
\* is set, whatever exec and thread are, as "Fork <parent_pid> <child_pid>
\* <cmdline>" with the command line looked up for child_tgid.
C1_OrdinaryFork ==
    [][ (CurFork /\ CurChildPid = CurChildTgid) =>
          IF forkflag
          THEN EmitsWithLookup(
                   TxtFork \o TxtSp \o Decimal(CurParentPid) \o TxtSp
                       \o Decimal(CurChildPid),
                   CurChildTgid)
          ELSE Silent ]_vars

\* C1 witness: under {fork} alone the datagram Fork(10, 20, 20) with the
\* resolver text "worker --id 1" has produced "Fork 10 20 worker --id 1".
C1_Witness ==
    /\ forkflag /\ ~execflag /\ ~threadflag
    /\ pc = "walk" /\ hdr = 76 /\ nrecv = 1
    /\ rcvbuf = FrFork
    /\ stdout = <<70, 111, 114, 107, 32, 49, 48, 32, 50, 48, 32, 119, 111, 114, 107, 101, 114, 32, 45, 45, 105, 100, 32, 49, 10>>

\* C2: a thread creation (child_pid # child_tgid) is reported iff the fork
\* and the thread flag are both set, as "Thread <child_tgid> <child_pid>
\* <cmdline>" with the command line looked up for child_tgid; with fork clear
\* nothing is reported even when thread and exec are set.
C2_ThreadFork ==
    [][ (CurFork /\ CurChildPid # CurChildTgid) =>
          IF forkflag /\ threadflag
          THEN EmitsWithLookup(
                   TxtThread \o TxtSp \o Decimal(CurChildTgid) \o TxtSp
                       \o Decimal(CurChildPid),
                   CurChildTgid)
          ELSE Silent ]_vars

\* C2 witness: under {fork, thread} the thread 21 of group 20 was reported
\* as "Thread 20 21 <N/A>".
C2_Witness ==
    /\ forkflag /\ threadflag /\ ~execflag
    /\ pc = "walk" /\ hdr = 76 /\ nrecv = 1
    /\ rcvbuf = FrThread
    /\ stdout = <<84, 104, 114, 101, 97, 100, 32, 50, 48, 32, 50, 49, 32, 60, 78, 47, 65, 62, 10>>

\* C3: an exec by the group leader (pid = tgid) is reported iff the exec flag
\* is set, whatever fork and thread are, as "Exec - <pid> <cmdline>" with the
\* command line looked up for tgid.
C3_LeaderExec ==
    [][ (CurExec /\ CurExecPid = CurExecTgid) =>
          IF execflag
          THEN EmitsWithLookup(
                   TxtExec \o TxtSp \o TxtDash \o TxtSp \o Decimal(CurExecPid),
                   CurExecTgid)
          ELSE Silent ]_vars

\* C3 witness: under {exec} alone, the second frame of a datagram, a leader
\* exec of 20, was reported as "Exec - 20 worker --id 1" and the fork in
\* front of it was not.
C3_Witness ==
    /\ execflag /\ ~forkflag /\ ~threadflag
    /\ pc = "walk" /\ hdr = 152 /\ nrecv = 1
    /\ rcvbuf = FrFork \o FrExecLeader
    /\ stdout = <<69, 120, 101, 99, 32, 45, 32, 50, 48, 32, 119, 111, 114, 107, 101, 114, 32, 45, 45, 105, 100, 32, 49, 10>>

\* the bytes this step appended to the output
Added == SubSeq(stdout', Len(stdout) + 1, Len(stdout'))
Appends == Len(stdout') >= Len(stdout) /\ SubSeq(stdout', 1, Len(stdout)) = stdout
StartsWith(t, p) == Len(t) >= Len(p) /\ SubSeq(t, 1, Len(p)) = p
EndsWith(t, p) == Len(t) >= Len(p) /\ SubSeq(t, Len(t) - Len(p) + 1, Len(t)) = p
\* t is one line: a single newline, at its end
OneLine(t) ==
    /\ Len(t) >= 1
    /\ t[Len(t)] = 10
    /\ \A i \in 1..(Len(t) - 1) : t[i] # 10

\* C4: an exec by a subordinate thread (pid # tgid) is reported iff the exec
\* and the thread flag are both set, as "Exec <tgid> <pid> <cmdline>" with the
\* command line looked up for tgid; so under {exec} alone every step writes
\* nothing, an overrun line or a leader line "Exec - ...", and every leader
\* exec is written.
C4_ThreadExec ==
    [][ /\ (CurExec /\ CurExecPid # CurExecTgid) =>
              IF execflag /\ threadflag
              THEN EmitsWithLookup(
                       TxtExec \o TxtSp \o Decimal(CurExecTgid) \o TxtSp
                           \o Decimal(CurExecPid),
                       CurExecTgid)
              ELSE Silent
        /\ (execflag /\ ~forkflag /\ ~threadflag) =>
              /\ Appends
              /\ \/ stdout' = stdout
                 \/ Added = TxtOverrun \o TxtNl
                 \/ StartsWith(Added, TxtExec \o TxtSp \o TxtDash \o TxtSp)
              /\ (CurExec /\ CurExecPid = CurExecTgid) => stdout' # stdout
      ]_vars

\* C4 witness: under {exec, thread} the exec of thread 21 of group 20, behind
\* an error frame, was reported as "Exec 20 21 worker --id 1".
C4_Witness ==
    /\ execflag /\ threadflag /\ ~forkflag
    /\ pc = "walk" /\ hdr = 152 /\ nrecv = 1
    /\ rcvbuf = FrError \o FrExecThread
    /\ stdout = <<69, 120, 101, 99, 32, 50, 48, 32, 50, 49, 32, 119, 111, 114, 107, 101, 114, 32, 45, 45, 105, 100, 32, 49, 10>>

\* C5: a valid frame of the overrun type writes the one line "overrun" under
\* every flag setting; its payload is not decoded and nothing is looked up.
C5_Overrun ==
    [][ (AtFrame /\ CurType = NLMSG_OVERRUN) =>
          /\ stdout' = stdout \o TxtOverrun \o TxtNl
          /\ nopen' = nopen
          /\ lastio' = lastio
          /\ cmdlinebuf' = cmdlinebuf
          /\ procname' = procname
          /\ MovesOn ]_vars

\* C5 witness: with every flag set, an overrun frame carrying the words of a
\* fork event has produced just "overrun", with no lookup.
C5_Witness ==
    /\ execflag /\ forkflag /\ threadflag
    /\ pc = "walk" /\ hdr = 76 /\ nrecv = 2
    /\ SubSeq(rcvbuf, 1, 19) = FrOverrun
    /\ stdout = TxtOverrun \o TxtNl
    /\ nopen = 0

\* the frame at hdr is one whose record the filter lets through
CurDecoded == ~CurIsData \/ CurWritten(64)
CurWarrants ==
    \/ CurType = NLMSG_OVERRUN
    \/ CurFork /\ forkflag /\ (CurChildPid = CurChildTgid \/ threadflag)
    \/ CurExec /\ execflag /\ (CurExecPid = CurExecTgid \/ threadflag)

\* C6: output is only ever appended to; each frame whose record is warranted
\* appends exactly one line and no other step appends anything; the walk
\* takes the frames of a datagram in wire order and a receive is issued only
\* when no valid frame is left.
C6_Order ==
    [][ /\ Appends
        /\ stdout' # stdout => AtFrame /\ OneLine(Added)
        /\ (AtFrame /\ CurDecoded) => (stdout' # stdout <=> CurWarrants)
        /\ AtFrame => MovesOn /\ nrecv' = nrecv
        /\ nrecv' # nrecv => pc = "recvfrom" /\ hdr' = 0
        /\ (pc = "walk" /\ pc' = "recvfrom") => ~FrameValid
      ]_vars

\* C6 witness: a datagram (Fork, leader Exec) and then a datagram (leader
\* Exec) have produced their three lines in that order.
C6_Witness ==
    /\ execflag /\ forkflag
    /\ nrecv = 2 /\ pc = "recvfrom"
    /\ stdout = <<70, 111, 114, 107, 32, 49, 48, 32, 50, 48, 32, 119, 111, 114, 107, 101, 114, 32, 45, 45, 105, 100, 32, 49, 10>> \o <<69, 120, 101, 99, 32, 45, 32, 50, 48, 32, 119, 111, 114, 107, 101, 114, 32, 45, 45, 105, 100, 32, 49, 10>> \o <<69, 120, 101, 99, 32, 45, 32, 50, 48, 32, 60, 78, 47, 65, 62, 10>>

\* C7: a frame is dispatched only if a full header remains and its declared
\* length is within [header size, remaining bytes]; at the first frame that
\* is not, the walk of the datagram ends with no output, no lookup and no
\* exit, and the loop goes back to the receive.
C7_Malformed ==
    [][ /\ (pc = "walk" /\ (stdout' # stdout \/ nopen' # nopen \/ hdr' # hdr))
              => FrameValid
        /\ (pc = "walk" /\ ~FrameValid) =>
              /\ Silent
              /\ pc' = "recvfrom"
              /\ hdr' = hdr
      ]_vars

\* C7 witness: of the datagram (Thread, frame of declared length 8, leader
\* Exec) only the Thread line was written; the walk stopped at the second
\* frame and the loop is back at the receive.
C7_Witness ==
    /\ execflag /\ forkflag /\ threadflag
    /\ pc = "recvfrom" /\ nrecv = 1 /\ hdr = 76
    /\ rcvbuf = FrThread \o FrTooSmall \o FrExecLeader
    /\ stdout = <<84, 104, 114, 101, 97, 100, 32, 50, 48, 32, 50, 49, 32, 119, 111, 114, 107, 101, 114, 32, 45, 45, 105, 100, 32, 49, 10>>

\* C8: an error or no-op frame, and a data frame whose channel pair differs
\* from the process-event channel in either component, writes nothing and
\* looks nothing up under every flag setting, and the walk moves on to the
\* following frame.
C8_Ignored ==
    [][ ( AtFrame /\
          \/ CurType \in {NLMSG_ERROR, NLMSG_NOOP}
          \/ /\ CurIsData
             /\ CurWritten(20)
             /\ (Cur(16) # CN_IDX_PROC \/ Cur(20) # CN_VAL_PROC) )
          => Silent /\ MovesOn ]_vars

\* C8 witness: with every flag set, a data frame of channel (1, 2) carrying
\* the words of a thread fork was passed over and the Thread frame behind it
\* was reported.
C8_Witness ==
    /\ execflag /\ forkflag /\ threadflag
    /\ pc = "walk" /\ hdr = 152 /\ nrecv = 1
    /\ rcvbuf = FrBadVal \o FrThread
    /\ stdout = <<84, 104, 114, 101, 97, 100, 32, 50, 48, 32, 50, 49, 32, 60, 78, 47, 65, 62, 10>>
    /\ nopen = 1

\* C9: when the read returns n bytes (0 <= n <= 4096) the returned text has
\* length n, has a space wherever the input byte is below 32, and holds no
\* NUL; "ab\0cd\1ef" gives "ab cd ef".
C9_Sanitized ==
    (pc = "returned" /\ lastio.io.ok /\ lastio.io.ret >= 0) =>
        LET inp == lastio.io.data
            res == CStr(cmdlinebuf)
        IN  /\ lastio.io.ret = Len(inp)
            /\ Len(inp) <= CMDLINE_SIZE
            /\ Len(res) = Len(inp)
            /\ \A i \in 1..Len(inp) :
                  /\ inp[i] < 32 => res[i] = 32
                  /\ res[i] # 0
            /\ inp = RawAbCdEf => res = TxtAbCdEf

\* C9 witness: a command line of the full 4096 bytes, ending in a NUL, came
\* back as 4096 bytes ending in a space.
C9_Witness ==
    /\ pc = "returned"
    /\ lastio.io.ok
    /\ lastio.io.ret = 4096
    /\ Len(CStr(cmdlinebuf)) = 4096
    /\ CStr(cmdlinebuf)[4096] = 32

\* C10: when open() fails the resolver's text is exactly "<N/A>", the record
\* is still written, ending in " <N/A>", and the walk moves on to the next
\* frame.
C10_OpenFails ==
    [][ (nopen' = nopen + 1 /\ ~lastio'.io.ok) =>
          /\ CStr(cmdlinebuf') = TxtNA
          /\ Appends
          /\ OneLine(Added)
          /\ EndsWith(Added, TxtSp \o TxtNA \o TxtNl)
          /\ Len(Added) > Len(TxtSp \o TxtNA \o TxtNl)
          /\ MovesOn ]_vars

\* C10 witness: the lookup for the Fork failed and the Exec behind it was
\* still resolved: "Fork 10 20 <N/A>" then "Exec - 20 worker --id 1".
C10_Witness ==
    /\ execflag /\ forkflag
    /\ pc = "walk" /\ hdr = 152 /\ nrecv = 1
    /\ stdout = <<70, 111, 114, 107, 32, 49, 48, 32, 50, 48, 32, 60, 78, 47, 65, 62, 10>> \o <<69, 120, 101, 99, 32, 45, 32, 50, 48, 32, 119, 111, 114, 107, 101, 114, 32, 45, 45, 105, 100, 32, 49, 10>>


\* C11: with neither exec nor fork given (thread alone included) the program
\* exits right after the option loop: no socket, no receive, no output; and
\* whenever the receive loop runs, exec or fork is set and no flag changes
\* after the option loop.
C11_ModeRequired ==
    [][ /\ (pc # "getopt" /\ ~(execflag \/ forkflag)) =>
              /\ pc = "exit"
              /\ nrecv = 0
              /\ stdout = <<>>
              /\ nopen = 0
        /\ pc \in {"recvfrom", "walk"} => execflag \/ forkflag
        /\ (pc = "getopt" /\ ~(execflag' \/ forkflag')) => pc' = "exit"
        /\ pc # "getopt" =>
              /\ execflag' = execflag
              /\ forkflag' = forkflag
              /\ threadflag' = threadflag
      ]_vars

\* C11 witness: started with the thread option alone, the program has exited
\* without ever binding a socket, receiving or writing.
C11_Witness ==
    /\ pc = "exit"
    /\ threadflag /\ ~execflag /\ ~forkflag
    /\ nl_pid = 0 /\ nrecv = 0 /\ stdout = <<>>


\* C12: once the receive loop is entered nothing leads to exit: exit is
\* reached only from the startup positions; the walk of any datagram
\* (malformed frames, failed receive, failed lookup included) can always take
\* a step, each iteration lowers the remaining count by at least a header,
\* and the walk leaves only for the receive.
C12_LoopForever ==
    /\ [](pc = "walk" => ENABLED (WalkStep \/ WalkEnd))
    /\ [][ /\ pc \in {"recvfrom", "walk"} => pc' \in {"recvfrom", "walk"}
           /\ (pc' = "exit" /\ pc # "exit") =>
                 pc \in {"getopt", "socket", "bind", "writev", "malloc"}
           /\ (pc = "walk" /\ pc' = "walk") =>
                 /\ bcount >= 16
                 /\ bcount' <= bcount - 16
           /\ (pc = "walk" /\ bcount < 16) => pc' = "recvfrom"
         ]_vars

\* C12 witness: after a datagram whose second frame was malformed and whose
\* lookup failed, and then a failed receive, the program is at the receive.
C12_Witness ==
    /\ pc = "recvfrom" /\ nrecv = 2
    /\ bcount = 0 - 1
    /\ rcvbuf = FrFork \o FrTooBig
    /\ nopen = 1
    /\ ~lastio.io.ok


\* C13: the connector header and the event fields are read only inside the
\* frame's declared length: a data frame shorter than the end of the fields
\* of the event it would decode to (byte 68 for a Fork, byte 60 for an Exec)
\* writes no record and makes no lookup.
C13_WithinFrame ==
    [][ (AtFrame /\ CurIsData /\ (stdout' # stdout \/ nopen' # nopen)) =>
          Cur(0) >= (IF StartsWith(Added, TxtExec) THEN OFF_PE_ID1 + 4
                     ELSE OFF_PE_ID3 + 4) ]_vars


\* C14: when open() succeeds and read() fails, the resolver's text is the
\* placeholder "<N/A>".
C14_ReadFails ==
    (pc = "returned" /\ lastio.io.ok /\ lastio.io.ret < 0) =>
        CStr(cmdlinebuf) = TxtNA


\* C15: a data frame on the process-event channel whose event kind is neither
\* Fork nor Exec is ignored under every flag configuration: nothing is written,
\* nothing is looked up, and the walk moves on to the frame that follows.
C15_OtherKinds ==
    [][ (AtFrame /\ CurIsData /\ CurOnChannel /\ CurWritten(OFF_PE_WHAT)
            /\ Cur(OFF_PE_WHAT) \notin {PROC_EVENT_FORK, PROC_EVENT_EXEC}) =>
          Silent /\ MovesOn ]_vars

\* all three flags set; the frame of another kind was passed in silence and
\* the overrun frame behind it was still reported
C15_Witness ==
    /\ execflag /\ forkflag /\ threadflag
    /\ nrecv = 1 /\ pc = "walk" /\ hdr = 152
    /\ rcvbuf = FrOther \o FrOverrun
    /\ stdout = TxtOverrun \o TxtNl
    /\ nopen = 0


\* C16: the resolver runs exactly once in a step that writes a Fork, Thread or
\* Exec line and in no other step; a step without a lookup leaves the command
\* line buffer, the file name buffer and the record of the last lookup as they
\* were; the file looked up is that of the thread group id (child_tgid of a
\* fork event, process_tgid of an exec event).
C16_OneLookup ==
    [][ /\ nopen' \in {nopen, nopen + 1}
        /\ nopen' = nopen + 1 <=>
              /\ Appends
              /\ \/ StartsWith(Added, TxtFork \o TxtSp)
                 \/ StartsWith(Added, TxtThread \o TxtSp)
                 \/ StartsWith(Added, TxtExec \o TxtSp)
        /\ nopen' = nopen =>
              /\ cmdlinebuf' = cmdlinebuf
              /\ procname' = procname
              /\ lastio' = lastio
        /\ nopen' # nopen => AtFrame /\ CurIsData
        /\ (CurFork /\ nopen' # nopen) =>
              /\ lastio'.path = TxtProcPath(CurChildTgid)
              /\ CStr(procname') = TxtProcPath(CurChildTgid)
        /\ (CurExec /\ nopen' # nopen) =>
              /\ lastio'.path = TxtProcPath(CurExecTgid)
              /\ CStr(procname') = TxtProcPath(CurExecTgid)
      ]_vars

\* a frame of another channel was passed without a lookup, then the thread
\* creation (child_pid 21, child_tgid 20) was looked up once, under 20
C16_Witness ==
    /\ forkflag /\ threadflag
    /\ nrecv = 1 /\ pc = "walk" /\ hdr = 152
    /\ rcvbuf = FrBadVal \o FrThread
    /\ nopen = 1
    /\ lastio.path = TxtProcPath(20)
    /\ CStr(procname) = TxtProcPath(20)
    /\ stdout = TxtThread \o TxtSp \o Decimal(20) \o TxtSp \o Decimal(21)
                    \o TxtSp \o TxtNA \o TxtNl


\* C17: whatever the length read (0 up to the buffer's capacity), every store
\* of the resolver, the terminator's included, is at an index 0..4095 of the
\* command line buffer, and the bytes next to the buffer stay as they were.
C17_InBounds ==
    pc = "returned" =>
        /\ (IF lastio.io.ok
            THEN (IF lastio.io.ret > 0 THEN lastio.io.ret ELSE 0)
            ELSE Len(TxtNA)) <= CMDLINE_SIZE - 1
        /\ Len(cmdlinebuf) <= CMDLINE_SIZE
        /\ CStr(procname) = lastio.path
        /\ bytes = (IF lastio.io.ok THEN lastio.io.ret ELSE Len(TxtNA))

\* C18: of the bytes read, those below 32 become spaces and every byte of
\* value 32 or more, 128..255 included, stays what it was, where it was.
C18_HighBytesKept ==
    (pc = "returned" /\ lastio.io.ok /\ lastio.io.ret >= 0) =>
        \A i \in 1..Len(lastio.io.data) :
            cmdlinebuf[i] = (IF lastio.io.data[i] < 32 THEN 32
                             ELSE lastio.io.data[i])


\* C19: a receive writes nothing and looks nothing up; a datagram whose sender
\* port id is not 0 is never walked, whatever it holds; output and lookups
\* happen only while a datagram from port 0 is walked; a failed receive stores
\* nothing, and the walk that may follow it ends at once, in silence, without
\* dispatching the bytes of the datagram before.
C19_KernelOnly ==
    [][ /\ nrecv' # nrecv => (pc = "recvfrom" /\ Silent)
        /\ (nrecv' # nrecv /\ nl_pid' # 0) => pc' = "recvfrom"
        /\ pc = "walk" => nl_pid = 0
        /\ (stdout' # stdout \/ nopen' # nopen) =>
              (pc = "walk" /\ nl_pid = 0 /\ bcount >= NLMSG_HDRLEN)
        /\ (nrecv' # nrecv /\ bcount' < 0) =>
              (rcvbuf' = rcvbuf /\ nl_pid' = nl_pid)
        /\ (pc = "walk" /\ bcount < 0) => (Silent /\ pc' = "recvfrom")
      ]_vars

\* the first datagram, an overrun frame and a fork frame from port 7, was not
\* walked; the receive after it failed and nothing was written either
C19_Witness ==
    /\ execflag /\ forkflag /\ threadflag
    /\ pc = "recvfrom" /\ nrecv = 2
    /\ nl_pid = 7
    /\ bcount = 0 - 1
    /\ rcvbuf = FrOverrun \o FrFork
    /\ stdout = <<>>
    /\ nopen = 0

====
